---- MODULE Spec2Model ----
(***************************************************************************)
(* Compatibility scoring and bidirectional matching of the Jobmate-AI      *)
(* backend (Backend/app/services/ai, Backend/app/api/v1/endpoints).        *)
(*                                                                         *)
(* Conventions                                                             *)
(*  - a Python str is a sequence of one-character strings;                 *)
(*  - a float score in [0,1] is kept in hundredths (0.85 is 85); the       *)
(*    arithmetic is exact and round() is Python's round-half-to-even;      *)
(*  - an Optional[int] that is None is the integer None (-1);              *)
(*  - a list that may be None is a record [none, items];                   *)
(*  - a call that raises yields a record with raised = TRUE.               *)
(***************************************************************************)
EXTENDS Integers, Sequences, FiniteSets, TLC

VARIABLES
    sk_in,      \* arguments of one _calculate_skill_match call
    sk_out,     \* its SkillMatch (or the raised marker)
    cc_in,      \* arguments and capability answers of one calculate_compatibility call
    cc_out,     \* its CompatibilityScore (or the raised marker)
    tier_in,    \* argument of one _get_recommendation_level call
    tier_out,   \* the tier it returns
    db,         \* the stored rows a matching call reads
    m_args,     \* direction, limit and min_score of the matching call
    m_pc,       \* "idle", "loop" (in the for loop), "done" or "raised"
    search_limit, \* LIMIT passed to the nearest-neighbour query, 0 before it is issued
    results,    \* rows the query returned
    row_i,      \* index of the next row of results
    matches,    \* the matches list
    returned,   \* the list the call returned
    bdb,        \* the stored rows a batch scoring call reads
    b_ids,      \* request.job_post_ids
    b_pc,       \* "idle", "loop", "done", "http404" or "raised"
    b_i,        \* index of the next job id
    b_results,  \* the results list
    b_outcomes, \* what happened to each id processed so far
    fn_in,      \* name and arguments of one call of a matcher function
    fn_out,     \* what that call returned (or the raised marker)
    p_db,       \* the stored rows the single-pair endpoint reads
    p_hist,     \* the single-pair calls made so far: request, answers, response
    svc,        \* number of CompatibilityScorerService instances created
    inv         \* the concurrent calculate_compatibility invocations

skillVars == <<sk_in, sk_out>>
scoreVars == <<cc_in, cc_out>>
tierVars == <<tier_in, tier_out>>
matchVars == <<db, m_args, m_pc, search_limit, results, row_i, matches, returned>>
batchVars == <<bdb, b_ids, b_pc, b_i, b_results, b_outcomes>>
fnVars == <<fn_in, fn_out>>
pairVars == <<p_db, p_hist>>
concVars == <<svc, inv>>
vars == <<sk_in, sk_out, cc_in, cc_out, tier_in, tier_out,
          db, m_args, m_pc, search_limit, results, row_i, matches, returned,
          bdb, b_ids, b_pc, b_i, b_results, b_outcomes,
          fn_in, fn_out, p_db, p_hist, svc, inv>>

(***************************************************************************)
(* Bounds                                                                  *)
(***************************************************************************)
MaxCand == 2    \* longest candidate skill list explored
MaxReq  == 3    \* longest required skill list explored
MaxPref == 1    \* longest preferred skill list explored
MaxCrit == 1    \* longest critical skill list explored
NJobs   == 3    \* job posts stored when a candidate is matched
NBatchJobs == 2 \* job posts stored when a batch is scored
MaxIds  == 3    \* longest job_post_ids list explored
MaxYears == 8   \* largest number of years explored
MaxEdu  == 2    \* longest candidate education list explored
MaxEduReq == 2  \* longest education_requirements list explored
MaxWork == 4    \* longest work history explored
MaxCalls == 2   \* single-pair calls made one after the other
NInv    == 2    \* concurrent calculate_compatibility invocations
NCands  == 3    \* parsed CVs stored when a job is matched

(***************************************************************************)
(* Python values                                                           *)
(***************************************************************************)
None == -1

NoneList == [none |-> TRUE, items |-> <<>>]

PyList(s) == [none |-> FALSE, items |-> s]

Pending == [done |-> FALSE]

\* bool(x) of an Optional[int]
Truthy(x) == x # None /\ x # 0

\* x or 0
OrZero(x) == IF Truthy(x) THEN x ELSE 0

Min(a, b) == IF a < b THEN a ELSE b

Max(a, b) == IF a > b THEN a ELSE b

\* round(num / den) for num >= 0, den > 0: nearest integer, ties to even
PyRound(num, den) ==
    LET q == num \div den
        r == num % den
    IN  IF 2 * r < den THEN q
        ELSE IF 2 * r > den THEN q + 1
        ELSE IF q % 2 = 0 THEN q ELSE q + 1

\* str.lower() on one character
LowerCh(ch) ==
    CASE ch = "P" -> "p"
      [] ch = "F" -> "f"
      [] ch = "D" -> "d"
      [] ch = "G" -> "g"
      [] ch = "B" -> "b"
      [] ch = "M" -> "m"
      [] ch = "S" -> "s"
      [] ch = "N" -> "n"
      [] OTHER    -> ch

str_lower(s) == [i \in 1..Len(s) |-> LowerCh(s[i])]

RECURSIVE str_lstrip(_)
str_lstrip(s) == IF s # <<>> /\ Head(s) = " " THEN str_lstrip(Tail(s)) ELSE s

RECURSIVE str_rstrip(_)
str_rstrip(s) ==
    IF s # <<>> /\ s[Len(s)] = " " THEN str_rstrip(SubSeq(s, 1, Len(s) - 1)) ELSE s

str_strip(s) == str_rstrip(str_lstrip(s))

\* s.lower().strip()
lower_strip(s) == str_strip(str_lower(s))

\* the elements of a list, as a set
Elems(s) == {s[i] : i \in 1..Len(s)}

\* lst[:n]
Take(s, n) == SubSeq(s, 1, Min(n, Len(s)))

(***************************************************************************)
(* CompatibilityScorerService._calculate_skill_match                       *)
(***************************************************************************)
c_skills_lower(candidate_skills) == {lower_strip(s) : s \in Elems(candidate_skills)}

matched_req(candidate_skills, required) ==
    SelectSeq(required, LAMBDA s : lower_strip(s) \in c_skills_lower(candidate_skills))

\* variant: missing decided by raw string equality
missing_req_raw(candidate_skills, required) ==
    SelectSeq(required, LAMBDA s : s \notin Elems(candidate_skills))

missing_req(candidate_skills, required) ==
    SelectSeq(required, LAMBDA s : lower_strip(s) \notin c_skills_lower(candidate_skills))

\* variant: the preferred skills the candidate does not have
variant_matched_pref(candidate_skills, preferred) ==
    SelectSeq(preferred, LAMBDA s : lower_strip(s) \notin c_skills_lower(candidate_skills))

matched_pref(candidate_skills, preferred) ==
    SelectSeq(preferred, LAMBDA s : lower_strip(s) \in c_skills_lower(candidate_skills))

missing_pref(candidate_skills, preferred) ==
    SelectSeq(preferred, LAMBDA s : lower_strip(s) \notin c_skills_lower(candidate_skills))

\* [s for s in missing_req if s in critical]: raw string membership
critical_missing(missing, critical) ==
    SelectSeq(missing, LAMBDA s : s \in Elems(critical))

\* variant: a penalty of 0.10 for each missing critical skill
skill_score_penalty10(nmatched, nrequired, ncritical, npref) ==
    LET x == 100 * nmatched - 10 * ncritical * nrequired + 5 * npref * nrequired
    IN  PyRound(Min(100 * nrequired, Max(0, x)), nrequired)

\* round(min(1.0, max(0.0, coverage - penalty + bonus)), 2), in hundredths
skill_score(nmatched, nrequired, ncritical, npref) ==
    LET x == 100 * nmatched - 15 * ncritical * nrequired + 5 * npref * nrequired
    IN  PyRound(Min(100 * nrequired, Max(0, x)), nrequired)

\* round(coverage, 2), in hundredths
match_rate(nmatched, nrequired) == PyRound(100 * nmatched, nrequired)

all_job_skills(required, preferred) == {str_lower(s) : s \in Elems(required \o preferred)}

additional(candidate_skills, required, preferred) ==
    SelectSeq(candidate_skills,
              LAMBDA s : lower_strip(s) \notin all_job_skills(required, preferred))

SkillRaised ==
    [done |-> TRUE, raised |-> TRUE, score |-> 0,
     matched_required |-> <<>>, missing_required |-> <<>>,
     matched_preferred |-> <<>>, missing_preferred |-> <<>>,
     additional_skills |-> <<>>, match_rate |-> 0, critical_missing |-> <<>>]

\* candidate_skills and critical may be None; required and preferred are lists
calculate_skill_match(candidate_skills, required, preferred, critical) ==
    IF required = <<>> THEN
        [done |-> TRUE, raised |-> FALSE, score |-> 100,
         matched_required |-> <<>>, missing_required |-> <<>>,
         matched_preferred |-> <<>>, missing_preferred |-> <<>>,
         additional_skills |-> <<>>, match_rate |-> 100, critical_missing |-> <<>>]
    ELSE IF candidate_skills.none THEN SkillRaised      \* iterating None: TypeError
    ELSE LET cs   == candidate_skills.items
             mreq == matched_req(cs, required)
             xreq == missing_req(cs, required)
             mprf == matched_pref(cs, preferred)
             xprf == missing_pref(cs, preferred)
         IN  IF critical.none /\ xreq # <<>> THEN SkillRaised   \* s in None: TypeError
             ELSE LET cm == critical_missing(xreq, critical.items)
                  IN  [done |-> TRUE, raised |-> FALSE,
                       score |-> skill_score(Len(mreq), Len(required), Len(cm), Len(mprf)),
                       matched_required |-> mreq, missing_required |-> xreq,
                       matched_preferred |-> mprf, missing_preferred |-> xprf,
                       additional_skills |-> Take(additional(cs, required, preferred), 5),
                       match_rate |-> match_rate(Len(mreq), Len(required)),
                       critical_missing |-> cm]

(***************************************************************************)
(* CompatibilityScorerService._identify_critical_skills                    *)
(*                                                                         *)
(* The classifier (llm_service.generate_structured followed by json.loads) *)
(* answers with one of:                                                    *)
(*   raise    the call raises (unavailable, timeout, any error)            *)
(*   notjson  text that json.loads rejects                                 *)
(*   nondict  JSON that is not an object (data.get raises)                 *)
(*   nokey    a JSON object without the key "critical"                     *)
(*   null     {"critical": null}                                           *)
(*   list     {"critical": [...]} with the list in items                   *)
(***************************************************************************)
CriticalAnswer(kind, items) == [kind |-> kind, items |-> items]

identify_critical_skills(required_skills, answer) ==
    IF required_skills = <<>> THEN PyList(<<>>)
    ELSE CASE answer.kind \in {"raise", "notjson", "nondict"} ->
                  PyList(Take(required_skills, 3))         \* except Exception
           [] answer.kind = "nokey" -> PyList(<<>>)       \* data.get("critical", [])
           [] answer.kind = "null"  -> NoneList
           [] OTHER                 -> PyList(answer.items)

(***************************************************************************)
(* CompatibilityScorerService._calculate_experience_match                  *)
(***************************************************************************)
\* variant: the bands start one year later (gap < 1, gap < 2)
variant_calculate_experience_match(candidate_years_arg, min_years_arg, max_years) ==
    LET candidate_years == OrZero(candidate_years_arg)
        min_years       == OrZero(min_years_arg)
        gap             == min_years - candidate_years
        over            == Truthy(max_years) /\ candidate_years > max_years + 5
    IN  [score |-> IF candidate_years >= min_years THEN (IF over THEN 95 ELSE 100)
                   ELSE IF gap < 1 THEN 85 ELSE IF gap < 2 THEN 70 ELSE 50,
         candidate_years |-> candidate_years,
         required_years |-> min_years,
         gap |-> IF candidate_years >= min_years THEN 0 ELSE gap,
         assessment |-> IF candidate_years >= min_years
                        THEN (IF ~over /\ candidate_years = min_years
                              THEN "meets_requirement" ELSE "exceeds")
                        ELSE IF gap < 1 THEN "slightly_below" ELSE "significantly_below",
         details |-> "details"]

calculate_experience_match(candidate_years_arg, min_years_arg, max_years) ==
    LET candidate_years == OrZero(candidate_years_arg)
        min_years       == OrZero(min_years_arg)
        gap             == min_years - candidate_years
    IN  IF candidate_years >= min_years THEN
            IF Truthy(max_years) /\ candidate_years > max_years + 5 THEN
                [score |-> 95, candidate_years |-> candidate_years,
                 required_years |-> min_years, gap |-> 0,
                 assessment |-> "exceeds", details |-> "exceeds requirement significantly"]
            ELSE
                [score |-> 100, candidate_years |-> candidate_years,
                 required_years |-> min_years, gap |-> 0,
                 assessment |-> IF candidate_years = min_years
                                THEN "meets_requirement" ELSE "exceeds",
                 details |-> "meets the requirement"]
        ELSE IF gap <= 1 THEN
            [score |-> 85, candidate_years |-> candidate_years,
             required_years |-> min_years, gap |-> gap,
             assessment |-> "slightly_below", details |-> "slightly below the requirement"]
        ELSE IF gap <= 2 THEN
            [score |-> 70, candidate_years |-> candidate_years,
             required_years |-> min_years, gap |-> gap,
             assessment |-> "significantly_below", details |-> "Missing 2 years"]
        ELSE
            [score |-> 50, candidate_years |-> candidate_years,
             required_years |-> min_years, gap |-> gap,
             assessment |-> "significantly_below", details |-> "Significant experience gap"]

(***************************************************************************)
(* CompatibilityScorerService._calculate_education_match                   *)
(*                                                                         *)
(* An education or work entry is an object with attributes (kind "obj",    *)
(* the schema classes of schemas/parsed_cv.py) or a plain dict (kind       *)
(* "dict", what the JSON columns of models/parsed_cv.py hold); e.degree    *)
(* on a dict raises AttributeError.                                        *)
(***************************************************************************)
NoneStr == << "<None>" >>

\* str(x) inside an f-string
FmtStr(x) == IF x = NoneStr THEN <<"N", "o", "n", "e">> ELSE x

\* a in b, for strings
IsSubstring(a, b) ==
    \E i \in 0..(Len(b) - Len(a)) : SubSeq(b, i + 1, i + Len(a)) = a

\* f"{e.degree} in {e.institution}"
FlattenEdu(e) == FmtStr(e.degree) \o <<" ", "i", "n", " ">> \o FmtStr(e.institution)

c_degrees(candidate_edu) == [i \in 1..Len(candidate_edu) |-> FlattenEdu(candidate_edu[i])]

edu_matched(degrees, required_edu) ==
    \E r \in 1..Len(required_edu) : \E d \in 1..Len(degrees) :
        IsSubstring(str_lower(required_edu[r]), str_lower(degrees[d]))

EduRaised ==
    [raised |-> TRUE, score |-> 0, candidate_education |-> <<>>,
     required_education |-> <<>>, meets_requirement |-> FALSE]

calculate_education_match(candidate_edu, required_edu) ==
    IF required_edu = <<>> THEN
        [raised |-> FALSE, score |-> 100, candidate_education |-> <<>>,
         required_education |-> <<>>, meets_requirement |-> TRUE]
    ELSE IF \E i \in 1..Len(candidate_edu) : candidate_edu[i].kind = "dict" THEN EduRaised
    ELSE LET degrees == c_degrees(candidate_edu)
             matched == edu_matched(degrees, required_edu)
         IN  [raised |-> FALSE,
              score |-> IF degrees = <<>> THEN 40 ELSE IF matched THEN 100 ELSE 70,
              candidate_education |-> degrees,
              required_education |-> required_edu,
              meets_requirement |-> matched]

(***************************************************************************)
(* CompatibilityScorerService._analyze_work_experience                     *)
(*                                                                         *)
(* The judge answers with kind raise / notjson / nondict as above, or with *)
(* kind "dict": a JSON object whose "score" is Absent, BadType (not a      *)
(* number) or an integer, and whose other keys are present or not.         *)
(***************************************************************************)
Absent == -1000

BadType == -2000

\* Field(..., ge=0.0, le=1.0) of schemas/compatibility.py, in hundredths
variant_ValidScore(x) == x >= 0

ValidScore(x) == x >= 0 /\ x <= 100

\* variant: only the positions that were summarised are counted
variant_WorkFallback(work_history) ==
    [score |-> 70, relevant_positions |-> 1, total_positions |-> Min(3, Len(work_history)),
     recent_experience_relevant |-> TRUE, career_progression |-> "Standard"]

WorkFallback(work_history) ==
    [score |-> 70, relevant_positions |-> 1, total_positions |-> Len(work_history),
     recent_experience_relevant |-> TRUE, career_progression |-> "Standard"]

analyze_work_experience(work_history, answer) ==
    IF work_history = <<>> THEN
        [score |-> 50, relevant_positions |-> 0, total_positions |-> 0,
         recent_experience_relevant |-> FALSE, career_progression |-> "Unclear"]
    ELSE IF \E i \in 1..Min(3, Len(work_history)) : work_history[i].kind = "dict"
        THEN WorkFallback(work_history)                 \* w.title: AttributeError
    ELSE IF answer.kind # "dict" THEN WorkFallback(work_history)
    ELSE IF answer.score = BadType THEN WorkFallback(work_history)      \* TypeError
    ELSE IF answer.relevant_count = BadType THEN WorkFallback(work_history)  \* ValidationError
    ELSE LET score == IF answer.score = Absent THEN 70 ELSE answer.score
         IN  IF ~ValidScore(score) THEN WorkFallback(work_history)   \* ValidationError
             ELSE [score |-> score,
                   relevant_positions |-> IF answer.relevant_count = Absent
                                          THEN 0 ELSE answer.relevant_count,
                   total_positions |-> Len(work_history),
                   recent_experience_relevant |-> answer.recent_relevant,
                   career_progression |-> answer.progression]

(***************************************************************************)
(* Aggregation: interpretation, tier, strengths, recommendations           *)
(***************************************************************************)
interpret_semantic_score(score) ==
    IF score > 85 THEN "Very strong semantic match"
    ELSE IF score > 70 THEN "Strong match"
    ELSE IF score > 50 THEN "Moderate match"
    ELSE "Low semantic match"

\* variant: strict comparisons
variant_get_recommendation_level(score) ==
    IF score > 85 THEN "highly_recommended"
    ELSE IF score > 70 THEN "recommended"
    ELSE IF score > 55 THEN "potential_fit"
    ELSE "not_recommended"

get_recommendation_level(score) ==
    IF score >= 85 THEN "highly_recommended"
    ELSE IF score >= 70 THEN "recommended"
    ELSE IF score >= 55 THEN "potential_fit"
    ELSE "not_recommended"

\* variant: int() instead of round()
variant_weighted_overall(skill, experience, education, work, semantic) ==
    (skill * 40 + experience * 25 + education * 15 + work * 10 + semantic * 10) \div 100

\* round(skill*100*0.40 + experience*100*0.25 + education*100*0.15
\*       + work*100*0.10 + semantic*100*0.10), the scores in hundredths
weighted_overall(skill, experience, education, work, semantic) ==
    PyRound(skill * 40 + experience * 25 + education * 15 + work * 10 + semantic * 10, 100)

OptItem(cond, x) == IF cond THEN <<x>> ELSE <<>>

strengths_of(skill, exp, edu, work, sem) ==
    OptItem(skill.score > 80, "Strong technical skill match")
    \o OptItem(exp.assessment \in {"meets_requirement", "exceeds"}, exp.details)
    \o OptItem(edu.meets_requirement, "Education requirements met")
    \o OptItem(work.score > 80, "Highly relevant work history")
    \o OptItem(sem.score > 80, "Resume content strongly aligns with job description")

weaknesses_of(skill, exp) ==
    OptItem(skill.critical_missing # <<>>, "Missing critical skills")
    \o OptItem(exp.assessment \notin {"meets_requirement", "exceeds"}, exp.details)

generate_recommendations(weaknesses, missing_skills) ==
    LET recs == IF missing_skills # <<>> THEN
                    << [type |-> "for_candidate", priority |-> "high",
                        recommendation |-> "upskill", skills |-> Take(missing_skills, 3)],
                       [type |-> "for_hr", priority |-> "medium",
                        recommendation |-> "probe", skills |-> Take(missing_skills, 3)] >>
                ELSE <<>>
    IN  IF recs = <<>> /\ weaknesses = <<>> THEN
            << [type |-> "for_hr", priority |-> "high",
                recommendation |-> "proceed", skills |-> <<>>] >>
        ELSE recs

generate_interview_focus(skill, exp) ==
    OptItem(skill.missing_required # <<>>, "Verify knowledge gaps")
    \o OptItem(exp.gap > 0, "discuss ability to ramp up given experience gap")
    \o <<"Career progression and recent projects">>

(***************************************************************************)
(* CompatibilityScorerService.calculate_compatibility                      *)
(***************************************************************************)
ScoreRaised == [done |-> TRUE, raised |-> TRUE]

\* lines 61-102: the semantic score is validated, then the weighted overall
\* score, the tier and the texts are assembled
aggregate(critical_skills, skill, exp, edu, work, semantic_similarity) ==
    LET sem == [score |-> semantic_similarity,
                interpretation |-> interpret_semantic_score(semantic_similarity)]
    IN  IF ~ValidScore(semantic_similarity) THEN ScoreRaised
        ELSE LET overall_score == weighted_overall(skill.score, exp.score, edu.score,
                                                   work.score, sem.score)
                 weaknesses    == weaknesses_of(skill, exp)
             IN  [done |-> TRUE, raised |-> FALSE,
                  overall_score |-> overall_score,
                  match_percentage |-> overall_score,
                  recommendation |-> get_recommendation_level(overall_score),
                  critical_skills |-> critical_skills,
                  skill_match |-> skill,
                  experience_match |-> exp,
                  education_match |-> edu,
                  work_experience_relevance |-> work,
                  semantic_similarity |-> sem,
                  strengths |-> strengths_of(skill, exp, edu, work, sem),
                  weaknesses |-> weaknesses,
                  recommendations |-> generate_recommendations(weaknesses,
                                                               skill.critical_missing),
                  interview_focus_areas |-> generate_interview_focus(skill, exp)]

calculate_compatibility(parsed_cv, job_analysis, semantic_similarity, crit_answer, work_answer) ==
    LET critical_skills == identify_critical_skills(job_analysis.required_skills, crit_answer)
        skill == calculate_skill_match(parsed_cv.skills, job_analysis.required_skills,
                                       job_analysis.preferred_skills, critical_skills)
        exp   == calculate_experience_match(parsed_cv.experience_years,
                                            job_analysis.min_years_experience,
                                            job_analysis.max_years_experience)
        edu   == calculate_education_match(parsed_cv.education,
                                           job_analysis.education_requirements)
        work  == analyze_work_experience(parsed_cv.work_experience, work_answer)
    IN  IF skill.raised \/ edu.raised THEN ScoreRaised
        ELSE aggregate(critical_skills, skill, exp, edu, work, semantic_similarity)

(***************************************************************************)
(* Skill matcher on its own: every argument drawn from bounded lists       *)
(***************************************************************************)
\* "P" and "p " are the same skill up to case and whitespace
SkillStrings == { <<"P">>, <<"p", " ">>, <<"F">>, <<"D">> }

RequiredStrings == { <<"P">>, <<"F">>, <<"D">> }

PreferredStrings == { <<"D">>, <<"p", " ">> }

CriticalStrings == { <<"F">>, <<"p", " ">> }

ListsUpTo(S, n) == UNION { [1..k -> S] : k \in 0..n }

SkillInputs ==
    [candidate_skills : {NoneList} \cup {PyList(l) : l \in ListsUpTo(SkillStrings, MaxCand)},
     required         : ListsUpTo(RequiredStrings, MaxReq),
     preferred        : ListsUpTo(PreferredStrings, MaxPref),
     critical         : {NoneList} \cup {PyList(l) : l \in ListsUpTo(CriticalStrings, MaxCrit)}]

NoCall == [done |-> FALSE]

SkillIdle == sk_in = NoCall /\ sk_out = Pending

ScoreIdle == cc_in = NoCall /\ cc_out = Pending

TierIdle == tier_in = 0 /\ tier_out = "pending"

NoDb == [candidate |-> [found |-> FALSE], jobs |-> <<>>,
         job |-> [found |-> FALSE], candidates |-> <<>>]

BatchIdle ==
    /\ bdb = [parsed_cv |-> [found |-> FALSE], jobs |-> <<>>]
    /\ b_ids = <<>>
    /\ b_pc = "idle"
    /\ b_i = 0
    /\ b_results = <<>>
    /\ b_outcomes = <<>>

FnIdle == fn_in = NoCall /\ fn_out = Pending

PairIdle == p_db = [cvs |-> <<>>, jobs |-> <<>>] /\ p_hist = <<>>

ConcIdle == svc = 0 /\ inv = <<>>

MatchIdle ==
    /\ db = NoDb
    /\ m_args = [direction |-> "none", limit |-> 0, min_score |-> 0]
    /\ m_pc = "idle"
    /\ search_limit = 0
    /\ results = <<>>
    /\ row_i = 0
    /\ matches = <<>>
    /\ returned = <<>>

InitSkill ==
    /\ sk_in \in SkillInputs
    /\ sk_out = Pending
    /\ ScoreIdle
    /\ FnIdle
    /\ PairIdle
    /\ ConcIdle
    /\ TierIdle
    /\ MatchIdle
    /\ BatchIdle

SkillMatchCall ==
    /\ ~sk_out.done
    /\ sk_out' = calculate_skill_match(sk_in.candidate_skills, sk_in.required,
                                       sk_in.preferred, sk_in.critical)
    /\ UNCHANGED <<sk_in, scoreVars, tierVars, matchVars, batchVars, fnVars, pairVars, concVars>>

NextSkill == SkillMatchCall

SpecSkill == InitSkill /\ [][NextSkill]_vars

(***************************************************************************)
(* One calculate_compatibility call on a stored candidate and job, with    *)
(* the answers of the two capabilities and the similarity the caller       *)
(* passes (1 - cosine distance, so possibly outside [0,1])                 *)
(***************************************************************************)
EduEntry(kind) == [kind |-> kind, degree |-> <<"B", "S">>, institution |-> <<"M">>]

WorkEntry(kind) == [kind |-> kind]

CvSkills ==
    { NoneList,
      PyList(<< <<"P">> >>),
      PyList(<< <<"p", " ">>, <<"F">>, <<"D">> >>) }

CvYears == {3, 12}

CvEducation == { <<>>, <<EduEntry("obj")>>, <<EduEntry("dict")>> }

CvWork == { <<>>, <<WorkEntry("obj")>>, <<WorkEntry("dict")>> }

ParsedCVs ==
    [skills : CvSkills, experience_years : CvYears,
     education : CvEducation, work_experience : CvWork]

\* <<required_skills, preferred_skills>>
JaSkills ==
    { << <<>>, <<>> >>,
      << << <<"P">>, <<"F">> >>, << <<"D">> >> >>,
      << << <<"F">>, <<"D">> >>, <<>> >>,
      << << <<"P">>, <<"F">>, <<"D">>, <<"p", " ">> >>, <<>> >> }

\* <<min_years_experience, max_years_experience>>
JaYears == { <<None, None>>, <<5, None>>, <<5, 6>> }

JaEducation == { <<>>, << <<"b", "s">> >>, << <<"P", "h", "D">> >> }

JobAnalyses ==
    { [required_skills |-> k[1], preferred_skills |-> k[2],
       min_years_experience |-> y[1], max_years_experience |-> y[2],
       education_requirements |-> e] :
        k \in JaSkills, y \in JaYears, e \in JaEducation }

CriticalAnswers ==
    { CriticalAnswer("raise", <<>>), CriticalAnswer("notjson", <<>>),
      CriticalAnswer("nondict", <<>>), CriticalAnswer("nokey", <<>>),
      CriticalAnswer("null", <<>>), CriticalAnswer("list", << <<"F">> >>) }

WorkAnswer(kind, score) ==
    [kind |-> kind, score |-> score, relevant_count |-> 2,
     recent_relevant |-> TRUE, progression |-> "Positive"]

WorkAnswers ==
    { WorkAnswer("raise", Absent), WorkAnswer("notjson", Absent),
      WorkAnswer("dict", BadType), WorkAnswer("dict", 150),
      WorkAnswer("dict", 85) }

Similarities == {-20, 50, 100, 120}

Init ==
    /\ SkillIdle
    /\ ScoreIdle
    /\ FnIdle
    /\ PairIdle
    /\ ConcIdle
    /\ TierIdle
    /\ MatchIdle
    /\ BatchIdle

CalculateCompatibilityCall ==
    /\ ~cc_out.done
    /\ \E cv \in ParsedCVs, ja \in JobAnalyses, sim \in Similarities,
          ca \in CriticalAnswers, wa \in WorkAnswers :
          /\ cc_in' = [done |-> TRUE, parsed_cv |-> cv, job_analysis |-> ja,
                       semantic_similarity |-> sim,
                       crit_answer |-> ca, work_answer |-> wa]
          /\ cc_out' = calculate_compatibility(cv, ja, sim, ca, wa)
    /\ UNCHANGED <<skillVars, tierVars, matchVars, batchVars, fnVars, pairVars, concVars>>

Next == CalculateCompatibilityCall

Spec == Init /\ [][Next]_vars

(***************************************************************************)
(* _get_recommendation_level on its own, on every overall_score the        *)
(* schema admits (0..100)                                                  *)
(***************************************************************************)
InitTier ==
    /\ SkillIdle
    /\ ScoreIdle
    /\ FnIdle
    /\ PairIdle
    /\ ConcIdle
    /\ tier_in \in 0..100
    /\ tier_out = "pending"
    /\ MatchIdle
    /\ BatchIdle

RecommendationLevelCall ==
    /\ tier_out = "pending"
    /\ tier_out' = get_recommendation_level(tier_in)
    /\ UNCHANGED <<tier_in, skillVars, scoreVars, matchVars, batchVars, fnVars, pairVars, concVars>>

NextTier == RecommendationLevelCall

SpecTier == InitTier /\ [][NextTier]_vars

(***************************************************************************)
(* JobMatcherService: the two matching directions                          *)
(*                                                                         *)
(* db.candidate / db.jobs are what find_matching_jobs reads, db.job /      *)
(* db.candidates what find_matching_candidates reads.  A distance is the   *)
(* pgvector cosine distance (<=>) in hundredths, 0..200.                   *)
(***************************************************************************)
\* the positions of a list, ordered as ORDER BY distance ASC allows (rows at
\* the same distance come in any order), the first k of them
Shortlists(rows, k) ==
    LET ids == {i \in 1..Len(rows) : rows[i].has_embedding}
        n   == Cardinality(ids)
    IN  { Take(f, k) : f \in { g \in [1..n -> ids] :
                                  /\ \A i, j \in 1..n : i # j => g[i] # g[j]
                                  /\ \A i \in 1..(n - 1) :
                                        rows[g[i]].distance <= rows[g[i + 1]].distance } }

\* lst.sort(key=lambda x: x['overall_match_score'], reverse=True): stable
RECURSIVE InsertDesc(_, _)
InsertDesc(sorted, x) ==
    IF sorted = <<>> THEN <<x>>
    ELSE IF Head(sorted).overall_match_score >= x.overall_match_score
         THEN <<Head(sorted)>> \o InsertDesc(Tail(sorted), x)
         ELSE <<x>> \o sorted

RECURSIVE SortDesc(_)
SortDesc(lst) ==
    IF lst = <<>> THEN <<>>
    ELSE InsertDesc(SortDesc(SubSeq(lst, 1, Len(lst) - 1)), lst[Len(lst)])

\* variant: the matches are returned in shortlist order
variant_sort_matches(lst) == lst

\* matches.sort(key=lambda x: x['overall_match_score'], reverse=True)
sort_matches(lst) == SortDesc(lst)

\* variant: no oversampling
variant_SearchLimit(limit) == limit

\* search_limit = limit * 2
SearchLimit(limit) == limit * 2

\* the capability answers explored while matching
MatchCriticalAnswers ==
    { CriticalAnswer("raise", <<>>), CriticalAnswer("null", <<>>),
      CriticalAnswer("list", << <<"F">> >>) }

MatchWorkAnswers == { WorkAnswer("raise", Absent), WorkAnswer("dict", 85) }

\* ---- candidate -> jobs ----
\* _get_candidate_data: None unless the parsed CV exists and has an embedding
variant_get_candidate_data(d) ==
    IF d.candidate.found THEN d.candidate
    ELSE [found |-> TRUE,
          obj |-> [skills |-> PyList(<<>>), experience_years |-> None,
                   education |-> <<>>, work_experience |-> <<>>]]

get_candidate_data(d) == d.candidate

JobMatchEntry(job_id, similarity_score, compatibility) ==
    [job_id |-> job_id, job_title |-> "title", company |-> "company",
     location |-> "location", similarity_score |-> similarity_score,
     compatibility |-> compatibility,
     overall_match_score |-> compatibility.overall_score,
     match_percentage |-> compatibility.match_percentage]

FindMatchingJobs_Query ==
    /\ m_pc = "idle"
    /\ m_args.direction = "jobs"
    /\ IF ~get_candidate_data(db).found
       THEN /\ m_pc' = "done"
            /\ returned' = <<>>
            /\ UNCHANGED <<search_limit, results, row_i>>
       ELSE /\ search_limit' = SearchLimit(m_args.limit)
            /\ results' \in Shortlists(db.jobs, SearchLimit(m_args.limit))
            /\ row_i' = 1
            /\ m_pc' = "loop"
            /\ UNCHANGED returned
    /\ UNCHANGED <<db, m_args, matches, skillVars, scoreVars, tierVars, batchVars, fnVars, pairVars, concVars>>

\* one iteration of `for row in results` (no try/except around the body)
FindMatchingJobs_Row ==
    /\ m_pc = "loop"
    /\ m_args.direction = "jobs"
    /\ row_i <= Len(results)
    /\ LET job_id           == results[row_i]
           similarity_score == 100 - db.jobs[job_id].distance
           job_analysis     == db.jobs[job_id].analysis
       IN  IF ~job_analysis.present
           THEN /\ row_i' = row_i + 1                        \* continue
                /\ UNCHANGED <<m_pc, matches>>
           ELSE \E ca \in MatchCriticalAnswers, wa \in MatchWorkAnswers :
                  LET compatibility ==
                        calculate_compatibility(get_candidate_data(db).obj, job_analysis.ja,
                                                similarity_score, ca, wa)
                  IN  IF compatibility.raised
                      THEN /\ m_pc' = "raised"               \* propagates to the caller
                           /\ UNCHANGED <<row_i, matches>>
                      ELSE IF compatibility.overall_score < m_args.min_score
                      THEN /\ row_i' = row_i + 1             \* continue
                           /\ UNCHANGED <<m_pc, matches>>
                      ELSE /\ matches' = Append(matches,
                                  JobMatchEntry(job_id, similarity_score, compatibility))
                           /\ row_i' = row_i + 1
                           /\ UNCHANGED m_pc
    /\ UNCHANGED <<db, m_args, search_limit, results, returned,
                   skillVars, scoreVars, tierVars, batchVars, fnVars, pairVars, concVars>>

FindMatchingJobs_Return ==
    /\ m_pc = "loop"
    /\ m_args.direction = "jobs"
    /\ row_i > Len(results)
    /\ returned' = Take(sort_matches(matches), m_args.limit)
    /\ m_pc' = "done"
    /\ UNCHANGED <<db, m_args, search_limit, results, row_i, matches,
                   skillVars, scoreVars, tierVars, batchVars, fnVars, pairVars, concVars>>

\* ---- job -> candidates ----
\* _get_job_data: None unless the job post exists and has an embedding; without
\* an analysis required_skills is [] and both year bounds are None
get_job_data(d) == d.job

\* JobMatcherService._calculate_skill_match: <<|matched|, |required|>> and the lists
matcher_skill_match(candidate_skills, required_skills) ==
    IF required_skills = <<>> THEN
        [num |-> 1, den |-> 1, matched |-> <<>>, missing |-> <<>>]
    ELSE LET lowered == {str_lower(str_strip(c)) : c \in Elems(candidate_skills)}
             matched == SelectSeq(required_skills,
                                  LAMBDA r : str_lower(str_strip(r)) \in lowered)
             missing == SelectSeq(required_skills,
                                  LAMBDA r : str_lower(str_strip(r)) \notin lowered)
         IN  [num |-> Len(matched), den |-> Len(required_skills),
              matched |-> matched, missing |-> missing]

\* JobMatcherService._calculate_experience_match, in hundredths
matcher_experience_match(candidate_years_arg, min_years, max_years) ==
    LET candidate_years == OrZero(candidate_years_arg)
    IN  IF min_years = None THEN 80
        ELSE IF candidate_years < min_years
             THEN Max(0, 100 - 20 * (min_years - candidate_years))
        ELSE IF Truthy(max_years) /\ candidate_years > max_years THEN 90
        ELSE 100

\* _generate_match_details: the tier of overall_score = num / den
match_recommendation(num, den) ==
    IF 100 * num >= 80 * den THEN "highly_recommended"
    ELSE IF 100 * num >= 65 * den THEN "recommended"
    ELSE IF 100 * num >= 50 * den THEN "potential_fit"
    ELSE "not_recommended"

\* int(x) of x = num / den, den > 0: truncation towards zero
PyInt(num, den) == IF num >= 0 THEN num \div den ELSE -((-num) \div den)

\* variant: similarity weighted 0.5, skills 0.3
variant_candidate_overall(similarity_score, skill, exp_score) ==
    [num |-> 50 * similarity_score * skill.den + 3000 * skill.num
             + 20 * exp_score * skill.den,
     den |-> 10000 * skill.den]

\* overall_score = similarity_score * 0.4 + skill_score_data['score'] * 0.4
\* + exp_score * 0.2, as the fraction num / den (the two scores in hundredths,
\* the skill score the fraction skill.num / skill.den)
candidate_overall(similarity_score, skill, exp_score) ==
    [num |-> 40 * similarity_score * skill.den + 4000 * skill.num
             + 20 * exp_score * skill.den,
     den |-> 10000 * skill.den]

\* the dict appended for the row; overall_num / overall_den is overall_score
CandidateMatchEntry(cand_id, row, job_data) ==
    LET similarity_score == 100 - row.distance
        skills    == IF row.skills.none THEN <<>> ELSE row.skills.items
        years     == IF row.experience_years = None THEN 0 ELSE row.experience_years
        skill     == matcher_skill_match(skills, job_data.required_skills)
        exp_score == matcher_experience_match(years, job_data.min_years_experience,
                                              job_data.max_years_experience)
        overall   == candidate_overall(similarity_score, skill, exp_score)
        den       == overall.den
        num       == overall.num
    IN  [candidate_id |-> cand_id, document_id |-> cand_id, name |-> "name",
         similarity_score |-> similarity_score,
         skill_match_score |-> PyRound(100 * skill.num, skill.den),
         experience_match_score |-> exp_score,
         overall_num |-> num, overall_den |-> den,
         overall_match_score |-> PyRound(100 * num, den),
         match_percentage |-> PyInt(100 * num, den),
         matched_skills |-> skill.matched, missing_skills |-> skill.missing,
         match_explanation |-> IF exp_score >= 90 THEN "fits well"
                               ELSE IF Truthy(job_data.min_years_experience)
                                       /\ years < job_data.min_years_experience
                                    THEN "below exp req" ELSE "",
         recommendation |-> match_recommendation(num, den)]

FindMatchingCandidates_Query ==
    /\ m_pc = "idle"
    /\ m_args.direction = "candidates"
    /\ IF ~get_job_data(db).found
       THEN /\ m_pc' = "done"
            /\ returned' = <<>>
            /\ UNCHANGED <<search_limit, results, row_i>>
       ELSE /\ search_limit' = SearchLimit(m_args.limit)
            /\ results' \in Shortlists(db.candidates, SearchLimit(m_args.limit))
            /\ row_i' = 1
            /\ m_pc' = "loop"
            /\ UNCHANGED returned
    /\ UNCHANGED <<db, m_args, matches, skillVars, scoreVars, tierVars, batchVars, fnVars, pairVars, concVars>>

\* one iteration of `for row in results` (no try/except around the body);
\* s.strip() on a skills entry that is not a string raises AttributeError
FindMatchingCandidates_Row ==
    /\ m_pc = "loop"
    /\ m_args.direction = "candidates"
    /\ row_i <= Len(results)
    /\ LET row      == db.candidates[results[row_i]]
           job_data == get_job_data(db)
       IN  IF row.skills.malformed /\ job_data.required_skills # <<>>
           THEN /\ m_pc' = "raised"                          \* propagates to the caller
                /\ UNCHANGED <<row_i, matches>>
           ELSE LET entry == CandidateMatchEntry(results[row_i], row, job_data)
                IN  IF 100 * entry.overall_num < m_args.min_score * entry.overall_den
                    THEN /\ row_i' = row_i + 1               \* continue
                         /\ UNCHANGED <<m_pc, matches>>
                    ELSE /\ matches' = Append(matches, entry)
                         /\ row_i' = row_i + 1
                         /\ UNCHANGED m_pc
    /\ UNCHANGED <<db, m_args, search_limit, results, returned,
                   skillVars, scoreVars, tierVars, batchVars, fnVars, pairVars, concVars>>

FindMatchingCandidates_Return ==
    /\ m_pc = "loop"
    /\ m_args.direction = "candidates"
    /\ row_i > Len(results)
    /\ returned' = Take(sort_matches(matches), m_args.limit)
    /\ m_pc' = "done"
    /\ UNCHANGED <<db, m_args, search_limit, results, row_i, matches,
                   skillVars, scoreVars, tierVars, batchVars, fnVars, pairVars, concVars>>

\* ---- stored data and arguments explored ----
Analysis(ja) == [present |-> TRUE, ja |-> ja]

NoAnalysis == [present |-> FALSE]

JaSkilled ==
    [required_skills |-> << <<"P">>, <<"F">> >>, preferred_skills |-> << <<"D">> >>,
     min_years_experience |-> 5, max_years_experience |-> None,
     education_requirements |-> <<>>]

JaDegree ==
    [required_skills |-> <<>>, preferred_skills |-> <<>>,
     min_years_experience |-> None, max_years_experience |-> None,
     education_requirements |-> << <<"b", "s">> >>]

\* job_posts joined with job_embeddings and (left) job_analyses
JobRows ==
    { [has_embedding |-> FALSE, analysis |-> Analysis(JaSkilled), distance |-> 20],
      [has_embedding |-> TRUE,  analysis |-> NoAnalysis,          distance |-> 30],
      [has_embedding |-> TRUE,  analysis |-> Analysis(JaSkilled), distance |-> 10],
      [has_embedding |-> TRUE,  analysis |-> Analysis(JaDegree),  distance |-> 50],
      [has_embedding |-> TRUE,  analysis |-> Analysis(JaSkilled), distance |-> 130] }

QueryCandidates ==
    { [found |-> FALSE],
      [found |-> TRUE,
       obj |-> [skills |-> PyList(<< <<"P">> >>), experience_years |-> 3,
                education |-> <<>>, work_experience |-> <<WorkEntry("obj")>>]],
      [found |-> TRUE,
       obj |-> [skills |-> PyList(<< <<"p", " ">>, <<"F">>, <<"D">> >>),
                experience_years |-> 12,
                education |-> <<EduEntry("dict")>>,
                work_experience |-> <<WorkEntry("dict")>>]] }

RowSkills(none, malformed, items) == [none |-> none, malformed |-> malformed, items |-> items]

\* documents joined with document_embeddings and parsed_cvs
CandidateRows ==
    { [has_embedding |-> TRUE, skills |-> RowSkills(FALSE, FALSE, << <<"P">> >>),
       experience_years |-> 3, distance |-> 10],
      [has_embedding |-> TRUE, skills |-> RowSkills(FALSE, FALSE, << <<"p", " ">>, <<"F">> >>),
       experience_years |-> 12, distance |-> 74],
      [has_embedding |-> TRUE, skills |-> RowSkills(TRUE, FALSE, <<>>),
       experience_years |-> None, distance |-> 130],
      [has_embedding |-> TRUE, skills |-> RowSkills(FALSE, TRUE, <<>>),
       experience_years |-> 5, distance |-> 70] }

QueryJobs ==
    { [found |-> FALSE],
      [found |-> TRUE, required_skills |-> <<>>,
       min_years_experience |-> None, max_years_experience |-> None],
      [found |-> TRUE, required_skills |-> << <<"P">>, <<"F">> >>,
       min_years_experience |-> 5, max_years_experience |-> 6] }

Limits == {1, 10}

\* min_score, in hundredths
MinScores == {0, 60}

InitMatch ==
    /\ SkillIdle
    /\ ScoreIdle
    /\ FnIdle
    /\ PairIdle
    /\ ConcIdle
    /\ TierIdle
    /\ BatchIdle
    /\ \/ /\ m_args \in [direction : {"jobs"}, limit : Limits, min_score : MinScores]
          /\ db \in [candidate : QueryCandidates, jobs : [1..NJobs -> JobRows],
                     job : {[found |-> FALSE]}, candidates : {<<>>}]
       \/ /\ m_args \in [direction : {"candidates"}, limit : Limits, min_score : MinScores]
          /\ db \in [candidate : {[found |-> FALSE]}, jobs : {<<>>},
                     job : QueryJobs, candidates : [1..NCands -> CandidateRows]]
    /\ m_pc = "idle"
    /\ search_limit = 0
    /\ results = <<>>
    /\ row_i = 0
    /\ matches = <<>>
    /\ returned = <<>>

NextMatch ==
    \/ FindMatchingJobs_Query
    \/ FindMatchingJobs_Row
    \/ FindMatchingJobs_Return
    \/ FindMatchingCandidates_Query
    \/ FindMatchingCandidates_Row
    \/ FindMatchingCandidates_Return

SpecMatch == InitMatch /\ [][NextMatch]_vars

(***************************************************************************)
(* POST /compatibility/batch: batch_compatibility_score                    *)
(***************************************************************************)
\* what the except clause of the loop does to the call: `continue`
variant_except_pc == "raised"

except_pc == "loop"

\* variant: the newest score is put in front of the list
variant_results_append(res, score) == <<score>> \o res

\* results.append(score)
results_append(res, score) == Append(res, score)

BatchStart ==
    /\ b_pc = "idle"
    /\ b_ids # <<>> \/ bdb.parsed_cv.found \/ bdb.jobs # <<>>
    /\ IF ~bdb.parsed_cv.found
       THEN /\ b_pc' = "http404"                  \* HTTPException(404)
            /\ UNCHANGED b_i
       ELSE /\ b_pc' = "loop"
            /\ b_i' = 1
    /\ UNCHANGED <<bdb, b_ids, b_results, b_outcomes,
                   skillVars, scoreVars, tierVars, matchVars,
                   fnVars, pairVars, concVars>>

\* one iteration of `for job_id in request.job_post_ids`, its try/except included
BatchItem ==
    /\ b_pc = "loop"
    /\ b_i <= Len(b_ids)
    /\ LET job == bdb.jobs[b_ids[b_i]]
       IN  IF ~job.post THEN
               /\ b_outcomes' = Append(b_outcomes, "no_post")        \* continue
               /\ UNCHANGED <<b_results, b_pc>>
           ELSE IF ~job.analysis.present THEN
               /\ b_outcomes' = Append(b_outcomes, "no_analysis")    \* continue
               /\ UNCHANGED <<b_results, b_pc>>
           ELSE \E ca \in MatchCriticalAnswers :
               LET score == calculate_compatibility(bdb.parsed_cv.obj, job.analysis.ja,
                                                    job.similarity, ca,
                                                    WorkAnswer("raise", Absent))
               IN  IF score.raised THEN
                       /\ b_outcomes' = Append(b_outcomes, "raised")
                       /\ b_pc' = except_pc
                       /\ UNCHANGED b_results
                   ELSE
                       /\ b_outcomes' = Append(b_outcomes, "scored")
                       /\ b_results' = results_append(b_results, score)
                       /\ UNCHANGED b_pc
    /\ b_i' = b_i + 1
    /\ UNCHANGED <<bdb, b_ids, skillVars, scoreVars, tierVars, matchVars,
                   fnVars, pairVars, concVars>>

BatchReturn ==
    /\ b_pc = "loop"
    /\ b_i > Len(b_ids)
    /\ b_pc' = "done"
    /\ UNCHANGED <<bdb, b_ids, b_i, b_results, b_outcomes,
                   skillVars, scoreVars, tierVars, matchVars,
                   fnVars, pairVars, concVars>>

\* job posts with their analysis and the cosine similarity of their embedding
\* to the candidate's (0.5 when either embedding is missing)
BatchJobRows ==
    { [post |-> FALSE, analysis |-> NoAnalysis, similarity |-> 50],
      [post |-> TRUE,  analysis |-> NoAnalysis, similarity |-> 50],
      [post |-> TRUE,  analysis |-> Analysis(JaSkilled), similarity |-> 90],
      [post |-> TRUE,  analysis |-> Analysis(JaDegree),  similarity |-> 50] }

InitBatch ==
    /\ SkillIdle
    /\ ScoreIdle
    /\ FnIdle
    /\ PairIdle
    /\ ConcIdle
    /\ TierIdle
    /\ MatchIdle
    /\ bdb \in [parsed_cv : QueryCandidates, jobs : [1..NBatchJobs -> BatchJobRows]]
    /\ b_ids \in ListsUpTo(1..NBatchJobs, MaxIds)
    /\ b_pc = "idle"
    /\ b_i = 0
    /\ b_results = <<>>
    /\ b_outcomes = <<>>

NextBatch ==
    \/ BatchStart
    \/ BatchItem
    \/ BatchReturn

SpecBatch == InitBatch /\ [][NextBatch]_vars

(***************************************************************************)
(* The matcher functions on their own, each on arguments drawn from        *)
(* bounded sets: fn_in names the function and holds its arguments          *)
(***************************************************************************)
YearsOpt == {None} \cup (0..MaxYears)

EduEntryOf(kind, degree) == [kind |-> kind, degree |-> degree, institution |-> <<"M">>]

EduEntries == { EduEntryOf(k, d) : k \in {"obj", "dict"}, d \in { <<"B", "S">>, NoneStr } }

EduKeywords == { <<"b", "s">>, <<"P", "h", "D">>, <<"n", "o", "n", "e">> }

\* score, relevant_count of the judge's JSON object; the other keys well typed
WorkAnswerOf(kind, score, relevant_count) ==
    [kind |-> kind, score |-> score, relevant_count |-> relevant_count,
     recent_relevant |-> FALSE, progression |-> "Positive"]

JudgeAnswers ==
    { WorkAnswerOf("raise", Absent, Absent), WorkAnswerOf("notjson", Absent, Absent),
      WorkAnswerOf("nondict", Absent, Absent),
      WorkAnswerOf("dict", BadType, 2), WorkAnswerOf("dict", 150, 2),
      WorkAnswerOf("dict", -5, 2), WorkAnswerOf("dict", 85, BadType),
      WorkAnswerOf("dict", 85, 2), WorkAnswerOf("dict", 0, 0),
      WorkAnswerOf("dict", Absent, Absent) }

\* the lists a skill is added against
AddedRequired ==
    { <<>>, << <<"P">> >>, << <<"F">>, <<"P">> >>, << <<"P">>, <<"F">>, <<"D">> >> }

AddedPreferred == { <<>>, << <<"D">> >>, << <<"p", " ">>, <<"D">> >> }

AddedCritical == { NoneList, PyList(<<>>), PyList(<< <<"F">>, <<"P">> >>) }

\* experience, education, work and semantic scores held fixed, in hundredths
OtherScores == { <<100, 100, 85, 90>>, <<50, 40, 50, 50>>, <<75, 100, 50, 0>> }

\* seq with x put after its first i elements
InsertAt(seq, i, x) == SubSeq(seq, 1, i) \o <<x>> \o SubSeq(seq, i + 1, Len(seq))

\* lines 66-78 for a returned skill match and the four other scores
overall_with(skill, others) ==
    IF skill.raised THEN [raised |-> TRUE, overall_score |-> 0, recommendation |-> ""]
    ELSE LET overall_score == weighted_overall(skill.score, others[1], others[2],
                                               others[3], others[4])
         IN  [raised |-> FALSE, overall_score |-> overall_score,
              recommendation |-> get_recommendation_level(overall_score)]

\* the arguments of one comparison: the candidate's list, the skill added to
\* it and where, the job's lists and the four other scores
SkillAddedInput(l, x, i, r, q, c, o) ==
    [fn |-> "skill_added", candidate_skills |-> l, added |-> x, at |-> i,
     required |-> r, preferred |-> q, critical |-> c, others |-> o]

FnInputs ==
    [fn : {"experience", "matcher_experience"},
     candidate_years : YearsOpt, min_years : YearsOpt, max_years : YearsOpt]
    \cup [fn : {"education"},
          candidate_edu : ListsUpTo(EduEntries, MaxEdu),
          required_edu : ListsUpTo(EduKeywords, MaxEduReq)]
    \cup [fn : {"work"},
          work_history : ListsUpTo({WorkEntry("obj"), WorkEntry("dict")}, MaxWork),
          answer : JudgeAnswers]
    \cup [fn : {"matcher_skill"},
          candidate_skills : ListsUpTo(SkillStrings, MaxCand),
          required_skills : ListsUpTo(RequiredStrings, MaxReq)]

Returned(v) == [done |-> TRUE, value |-> v]

InitFn ==
    /\ SkillIdle
    /\ ScoreIdle
    /\ TierIdle
    /\ MatchIdle
    /\ BatchIdle
    /\ PairIdle
    /\ ConcIdle
    /\ \/ fn_in \in FnInputs
       \/ \E l \in ListsUpTo(SkillStrings, MaxCand), x \in SkillStrings,
             r \in AddedRequired, q \in AddedPreferred, c \in AddedCritical,
             o \in OtherScores :
             \E i \in 0..Len(l) : fn_in = SkillAddedInput(l, x, i, r, q, c, o)
    /\ fn_out = Pending

ExperienceMatchCall ==
    /\ fn_in.fn = "experience"
    /\ ~fn_out.done
    /\ fn_out' = Returned(calculate_experience_match(fn_in.candidate_years, fn_in.min_years,
                                                     fn_in.max_years))
    /\ UNCHANGED <<fn_in, skillVars, scoreVars, tierVars, matchVars, batchVars,
                   pairVars, concVars>>

EducationMatchCall ==
    /\ fn_in.fn = "education"
    /\ ~fn_out.done
    /\ fn_out' = Returned(calculate_education_match(fn_in.candidate_edu, fn_in.required_edu))
    /\ UNCHANGED <<fn_in, skillVars, scoreVars, tierVars, matchVars, batchVars,
                   pairVars, concVars>>

AnalyzeWorkExperienceCall ==
    /\ fn_in.fn = "work"
    /\ ~fn_out.done
    /\ fn_out' = Returned(analyze_work_experience(fn_in.work_history, fn_in.answer))
    /\ UNCHANGED <<fn_in, skillVars, scoreVars, tierVars, matchVars, batchVars,
                   pairVars, concVars>>

MatcherSkillMatchCall ==
    /\ fn_in.fn = "matcher_skill"
    /\ ~fn_out.done
    /\ fn_out' = Returned(matcher_skill_match(fn_in.candidate_skills, fn_in.required_skills))
    /\ UNCHANGED <<fn_in, skillVars, scoreVars, tierVars, matchVars, batchVars,
                   pairVars, concVars>>

MatcherExperienceMatchCall ==
    /\ fn_in.fn = "matcher_experience"
    /\ ~fn_out.done
    /\ fn_out' = Returned(matcher_experience_match(fn_in.candidate_years, fn_in.min_years,
                                                   fn_in.max_years))
    /\ UNCHANGED <<fn_in, skillVars, scoreVars, tierVars, matchVars, batchVars,
                   pairVars, concVars>>

\* the skill matcher and the aggregation, once on the candidate's skills and
\* once on the same list with one skill added
SkillAddedCall ==
    /\ fn_in.fn = "skill_added"
    /\ ~fn_out.done
    /\ LET more   == InsertAt(fn_in.candidate_skills, fn_in.at, fn_in.added)
           before == calculate_skill_match(PyList(fn_in.candidate_skills), fn_in.required,
                                           fn_in.preferred, fn_in.critical)
           after  == calculate_skill_match(PyList(more), fn_in.required,
                                           fn_in.preferred, fn_in.critical)
       IN  fn_out' = Returned([before |-> before, after |-> after,
                               report_before |-> overall_with(before, fn_in.others),
                               report_after  |-> overall_with(after, fn_in.others)])
    /\ UNCHANGED <<fn_in, skillVars, scoreVars, tierVars, matchVars, batchVars,
                   pairVars, concVars>>

NextFn ==
    \/ SkillAddedCall
    \/ ExperienceMatchCall
    \/ EducationMatchCall
    \/ AnalyzeWorkExperienceCall
    \/ MatcherSkillMatchCall
    \/ MatcherExperienceMatchCall

SpecFn == InitFn /\ [][NextFn]_vars

(***************************************************************************)
(* POST /compatibility/score: calculate_compatibility_score, called        *)
(* several times one after the other on the same stored rows               *)
(***************************************************************************)
NotFound(detail) == [status |-> 404, detail |-> detail]

\* the response of one call: HTTPException(404), the score, or the error the
\* framework makes of an exception the scorer raised
pair_response(d, request, crit_answer) ==
    LET parsed_cv == d.cvs[request.parsed_cv_id]
        job       == d.jobs[request.job_post_id]
    IN  IF ~parsed_cv.found THEN NotFound("Parsed CV not found")
        ELSE IF ~job.post THEN NotFound("Job Post not found")
        ELSE IF ~job.analysis.present THEN NotFound("Job Analysis not found")
        ELSE LET score == calculate_compatibility(parsed_cv.obj, job.analysis.ja,
                                                  job.similarity, crit_answer,
                                                  WorkAnswer("raise", Absent))
             IN  IF score.raised THEN [status |-> 500]
                 ELSE [status |-> 200, score |-> score]

\* variant: a call that ends with 404 leaves the stored CVs unreadable
variant_db_after_call(d, response) ==
    IF response.status = 404
    THEN [d EXCEPT !.cvs = [i \in DOMAIN d.cvs |-> [found |-> FALSE]]]
    ELSE d

\* the handler only reads (get_parsed_cv, get_job_post, get_job_analysis_by_job_id,
\* query(...).first()); its session is closed by get_db when the request ends
db_after_call(d, response) == d

\* get_compatibility_scorer_service, run to completion: the instance is
\* created by the first call that needs it
get_scorer_service(n) == IF n = 0 THEN 1 ELSE n

PairCall ==
    /\ Len(p_hist) < MaxCalls
    /\ \E cv_id \in DOMAIN p_db.cvs, job_id \in DOMAIN p_db.jobs,
          ca \in MatchCriticalAnswers :
          LET request  == [parsed_cv_id |-> cv_id, job_post_id |-> job_id]
              response == pair_response(p_db, request, ca)
          IN  /\ p_hist' = Append(p_hist, [request |-> request, crit_answer |-> ca,
                                           response |-> response])
              /\ p_db' = db_after_call(p_db, response)
    /\ svc' = get_scorer_service(svc)
    /\ UNCHANGED <<inv, skillVars, scoreVars, tierVars, matchVars, batchVars, fnVars>>

PairCvRows == { q \in QueryCandidates : ~q.found \/ q.obj.education = <<>> }

PairJobRows == { j \in BatchJobRows : j.analysis.present => j.similarity = 90 }

InitPair ==
    /\ SkillIdle
    /\ ScoreIdle
    /\ TierIdle
    /\ MatchIdle
    /\ BatchIdle
    /\ FnIdle
    /\ ConcIdle
    /\ p_db \in [cvs : [1..2 -> PairCvRows], jobs : [1..2 -> PairJobRows]]
    /\ p_hist = <<>>

NextPair == PairCall

SpecPair == InitPair /\ [][NextPair]_vars

(***************************************************************************)
(* Concurrent invocations of the scorer: each takes the service from       *)
(* get_compatibility_scorer_service (check, then create) and runs          *)
(* calculate_compatibility statement by statement on its own arguments;    *)
(* the statements of different invocations interleave                      *)
(***************************************************************************)
ConcArgs ==
    { [parsed_cv |-> q.obj, job_analysis |-> ja, semantic_similarity |-> 50,
       crit_answer |-> ca, work_answer |-> WorkAnswer("dict", 85)] :
        q \in {c \in QueryCandidates : c.found},
        ja \in {JaSkilled, JaDegree},
        ca \in {CriticalAnswer("list", << <<"F">> >>)} }
    \cup { [parsed_cv |-> q.obj, job_analysis |-> JaSkilled, semantic_similarity |-> 50,
            crit_answer |-> CriticalAnswer("null", <<>>),
            work_answer |-> WorkAnswer("raise", Absent)] :
           q \in {c \in QueryCandidates : c.found /\ c.obj.education = <<>>} }

Fresh(args) ==
    [pc |-> "start", args |-> args, scorer |-> 0, critical_skills |-> NoneList,
     skill_match |-> Pending, experience_match |-> Pending, education_match |-> Pending,
     work_history_relevance |-> Pending, result |-> Pending]

\* variant: every invocation reads the arguments of the first one
variant_args_of(p) == inv[1].args

\* parsed_cv, job_analysis, job_post, semantic_similarity: parameters of the call
args_of(p) == inv[p].args

InitConc ==
    /\ SkillIdle
    /\ ScoreIdle
    /\ TierIdle
    /\ MatchIdle
    /\ BatchIdle
    /\ FnIdle
    /\ PairIdle
    /\ svc = 0
    /\ inv \in [1..NInv -> {Fresh(a) : a \in ConcArgs}]

ConcFrame == UNCHANGED <<skillVars, scoreVars, tierVars, matchVars, batchVars,
                         fnVars, pairVars>>

\* if _compatibility_service_instance is None
GetServiceCheck(p) ==
    /\ inv[p].pc = "start"
    /\ IF svc = 0
       THEN inv' = [inv EXCEPT ![p].pc = "create"]
       ELSE inv' = [inv EXCEPT ![p].pc = "critical", ![p].scorer = svc]
    /\ UNCHANGED svc
    /\ ConcFrame

\* _compatibility_service_instance = CompatibilityScorerService(); return it
GetServiceCreate(p) ==
    /\ inv[p].pc = "create"
    /\ svc' = svc + 1
    /\ inv' = [inv EXCEPT ![p].pc = "critical", ![p].scorer = svc + 1]
    /\ ConcFrame

IdentifyCriticalStep(p) ==
    /\ inv[p].pc = "critical"
    /\ inv' = [inv EXCEPT ![p].pc = "match",
                          ![p].critical_skills =
                              identify_critical_skills(args_of(p).job_analysis.required_skills,
                                                       args_of(p).crit_answer)]
    /\ UNCHANGED svc
    /\ ConcFrame

MatchersStep(p) ==
    /\ inv[p].pc = "match"
    /\ LET a     == args_of(p)
           skill == calculate_skill_match(a.parsed_cv.skills, a.job_analysis.required_skills,
                                          a.job_analysis.preferred_skills,
                                          inv[p].critical_skills)
           exp   == calculate_experience_match(a.parsed_cv.experience_years,
                                               a.job_analysis.min_years_experience,
                                               a.job_analysis.max_years_experience)
           edu   == calculate_education_match(a.parsed_cv.education,
                                              a.job_analysis.education_requirements)
       IN  IF skill.raised \/ edu.raised
           THEN inv' = [inv EXCEPT ![p].pc = "done", ![p].result = ScoreRaised]
           ELSE inv' = [inv EXCEPT ![p].pc = "work", ![p].skill_match = skill,
                                   ![p].experience_match = exp,
                                   ![p].education_match = edu]
    /\ UNCHANGED svc
    /\ ConcFrame

AnalyzeWorkStep(p) ==
    /\ inv[p].pc = "work"
    /\ inv' = [inv EXCEPT ![p].pc = "aggregate",
                          ![p].work_history_relevance =
                              analyze_work_experience(args_of(p).parsed_cv.work_experience,
                                                      args_of(p).work_answer)]
    /\ UNCHANGED svc
    /\ ConcFrame

AggregateStep(p) ==
    /\ inv[p].pc = "aggregate"
    /\ inv' = [inv EXCEPT ![p].pc = "done",
                          ![p].result =
                              aggregate(inv[p].critical_skills, inv[p].skill_match,
                                        inv[p].experience_match, inv[p].education_match,
                                        inv[p].work_history_relevance,
                                        args_of(p).semantic_similarity)]
    /\ UNCHANGED svc
    /\ ConcFrame

NextConc ==
    \E p \in 1..NInv :
        \/ GetServiceCheck(p)
        \/ GetServiceCreate(p)
        \/ IdentifyCriticalStep(p)
        \/ MatchersStep(p)
        \/ AnalyzeWorkStep(p)
        \/ AggregateStep(p)

SpecConc == InitConc /\ [][NextConc]_vars

(***************************************************************************)
(* Properties of the skill matcher (SpecSkill)                             *)
(***************************************************************************)
SkillReturned == sk_out.done /\ ~sk_out.raised

Abs(x) == IF x < 0 THEN -x ELSE x

\* coverage - 0.15*|critical_missing| + 0.05*|matched_preferred|, clamped to
\* [0,1], in hundredths and multiplied by |required|
SkillReference ==
    LET n == Len(sk_in.required)
        x == 100 * Len(sk_out.matched_required)
             - 15 * Len(sk_out.critical_missing) * n
             + 5 * Len(sk_out.matched_preferred) * n
    IN  IF x < 0 THEN 0 ELSE IF x > 100 * n THEN 100 * n ELSE x

SkillEmptyCase ==
    /\ sk_out.score = 100
    /\ sk_out.match_rate = 100
    /\ sk_out.matched_required = <<>> /\ sk_out.missing_required = <<>>
    /\ sk_out.matched_preferred = <<>> /\ sk_out.missing_preferred = <<>>
    /\ sk_out.critical_missing = <<>>

SkillMatchRateRounded ==
    2 * Abs(sk_out.match_rate * Len(sk_in.required)
            - 100 * Len(sk_out.matched_required)) <= Len(sk_in.required)

\* C8 as stated: with required empty the score and match_rate are 1.0 and the
\* lists are empty; otherwise the score EQUALS clamp(coverage - 0.15*|critical_missing|
\* + 0.05*|matched_preferred|, 0, 1) and match_rate is coverage rounded to 2 decimals.
C8_ScoreEqualsClamp ==
    SkillReturned =>
        IF sk_in.required = <<>> THEN SkillEmptyCase
        ELSE /\ sk_out.score * Len(sk_in.required) = SkillReference
             /\ SkillMatchRateRounded

\* C8 amended: as C8, but the score is the clamped value rounded to 2 decimals
\* (the hundredth nearest to it), like match_rate.
C8_ScoreIsRoundedClamp ==
    SkillReturned =>
        IF sk_in.required = <<>> THEN SkillEmptyCase
        ELSE /\ 2 * Abs(sk_out.score * Len(sk_in.required) - SkillReference)
                    <= Len(sk_in.required)
             /\ SkillMatchRateRounded

\* the worked example: one of three required skills matched, one critical
\* skill missing, nothing preferred: score 0.18, match_rate 0.33
C8_Witness ==
    /\ SkillReturned
    /\ sk_in.required = << <<"P">>, <<"F">>, <<"D">> >>
    /\ sk_in.candidate_skills = PyList(<< <<"P">> >>)
    /\ sk_in.critical = PyList(<< <<"F">> >>)
    /\ sk_in.preferred = <<>>
    /\ sk_out.score = 18
    /\ sk_out.match_rate = 33

\* case-insensitive, trimmed equality with some candidate skill
SameSkill(a, b) == str_lower(str_strip(a)) = str_lower(str_strip(b))

HasSkill(s) ==
    \E j \in 1..Len(sk_in.candidate_skills.items) :
        SameSkill(s, sk_in.candidate_skills.items[j])

\* the number of positions of list l that hold string s
Count(l, s) == Cardinality({i \in 1..Len(l) : l[i] = s})

\* C9: matched_required and missing_required partition required_skills (each
\* required entry is in exactly one of them, decided by case-insensitive trimmed
\* equality with some candidate skill), and critical_missing is within
\* missing_required, which is within required_skills.
C9_Partition ==
    (SkillReturned /\ sk_in.required # <<>>) =>
        /\ \A s \in Elems(sk_in.required) :
              /\ Count(sk_out.matched_required, s) + Count(sk_out.missing_required, s)
                    = Count(sk_in.required, s)
              /\ HasSkill(s)  => Count(sk_out.missing_required, s) = 0
              /\ ~HasSkill(s) => Count(sk_out.matched_required, s) = 0
        /\ Len(sk_out.matched_required) + Len(sk_out.missing_required)
              = Len(sk_in.required)
        /\ Elems(sk_out.critical_missing) \subseteq Elems(sk_out.missing_required)
        /\ Elems(sk_out.missing_required) \subseteq Elems(sk_in.required)

\* a required skill matched only up to case and whitespace, another one
\* missing and critical
C9_Witness ==
    /\ SkillReturned
    /\ sk_in.candidate_skills = PyList(<< <<"p", " ">> >>)
    /\ sk_out.matched_required = << <<"P">> >>
    /\ sk_out.missing_required = << <<"F">> >>
    /\ sk_out.critical_missing = << <<"F">> >>

(***************************************************************************)
(* Properties of calculate_compatibility (Spec) and of the tier (SpecTier) *)
(***************************************************************************)
ScoreReturned == cc_out.done /\ ~cc_out.raised

\* 100 times the weighted sum of the five sub-scores (themselves in hundredths)
WeightedSum ==
    40 * cc_out.skill_match.score + 25 * cc_out.experience_match.score
    + 15 * cc_out.education_match.score + 10 * cc_out.work_experience_relevance.score
    + 10 * cc_out.semantic_similarity.score

\* C1: overall_score is round(100 * (0.40*skill + 0.25*experience + 0.15*education
\* + 0.10*work + 0.10*semantic)): the integer nearest to the weighted sum, the
\* even one at a tie (Python's round); the weights sum to 1, so five scores of
\* 1.0 give 100.
C1_OverallIsRoundedWeightedSum ==
    /\ weighted_overall(100, 100, 100, 100, 100) = 100
    /\ ScoreReturned =>
          /\ Abs(100 * cc_out.overall_score - WeightedSum) <= 50
          /\ Abs(100 * cc_out.overall_score - WeightedSum) = 50
                => cc_out.overall_score % 2 = 0

\* a report whose weighted sum is not an integer and is rounded up
C1_Witness ==
    /\ ScoreReturned
    /\ WeightedSum % 100 > 50
    /\ 100 * cc_out.overall_score > WeightedSum
    /\ cc_out.skill_match.score \notin {0, 100}

\* C2: the tier is decided by overall_score alone, with the bands 85..100
\* highly_recommended, 70..84 recommended, 55..69 potential_fit, 0..54
\* not_recommended.
C2_TierBands ==
    tier_out # "pending" =>
        /\ tier_in \in 85..100 <=> tier_out = "highly_recommended"
        /\ tier_in \in 70..84  <=> tier_out = "recommended"
        /\ tier_in \in 55..69  <=> tier_out = "potential_fit"
        /\ tier_in \in 0..54   <=> tier_out = "not_recommended"

\* the boundary score 85 classified
C2_Witness == tier_in = 85 /\ tier_out = "highly_recommended"

InUnit(x) == x \in 0..100

\* C3: a returned CompatibilityScore has its five sub-scores in [0,1],
\* overall_score an integer in 0..100 and match_percentage = overall_score.
C3_ScoresInRange ==
    ScoreReturned =>
        /\ InUnit(cc_out.skill_match.score)
        /\ InUnit(cc_out.experience_match.score)
        /\ InUnit(cc_out.education_match.score)
        /\ InUnit(cc_out.work_experience_relevance.score)
        /\ InUnit(cc_out.semantic_similarity.score)
        /\ cc_out.overall_score \in 0..100
        /\ cc_out.match_percentage = cc_out.overall_score

\* a report returned although the work-history judge answered 150 out of 100
C3_Witness ==
    /\ ScoreReturned
    /\ cc_in.parsed_cv.work_experience = <<WorkEntry("obj")>>
    /\ cc_in.work_answer = WorkAnswer("dict", 150)
    /\ cc_out.semantic_similarity.score = 100

\* the classifier was consulted and did not answer {"critical": [...]}
ClassifierFailed ==
    /\ cc_in.done
    /\ cc_in.job_analysis.required_skills # <<>>
    /\ cc_in.crit_answer.kind \in {"raise", "notjson", "nondict", "nokey", "null"}

\* the same call returns a report when the classifier answers {"critical": []}
ReturnsWithWorkingClassifier ==
    ~calculate_compatibility(cc_in.parsed_cv, cc_in.job_analysis,
                             cc_in.semantic_similarity,
                             CriticalAnswer("list", <<>>), cc_in.work_answer).raised

\* C10: whenever the classifier is unavailable, raises or answers with malformed
\* output, the call still returns a report and the critical set it used is the
\* first three required skills in list order.
C10_ClassifierFailureFallsBack ==
    (ClassifierFailed /\ ReturnsWithWorkingClassifier) =>
        /\ ScoreReturned
        /\ cc_out.critical_skills = PyList(Take(cc_in.job_analysis.required_skills, 3))

(***************************************************************************)
(* Properties of the two matching directions (SpecMatch)                   *)
(***************************************************************************)
JobsDone == m_pc = "done" /\ m_args.direction = "jobs"

NonIncreasing(lst) ==
    \A i \in 1..(Len(lst) - 1) : lst[i].overall_match_score >= lst[i + 1].overall_match_score

\* C4: find_matching_jobs returns at most `limit` entries; each is a shortlisted
\* job that has a job analysis and whose overall_score is at least min_score*100;
\* a shortlisted job without an analysis is skipped and never the row at which
\* the call fails; the entries are in non-increasing overall_score order.
C4_JobsRanking ==
    /\ JobsDone =>
          /\ Len(returned) <= m_args.limit
          /\ \A i \in 1..Len(returned) :
                /\ returned[i].job_id \in Elems(results)
                /\ db.jobs[returned[i].job_id].analysis.present
                /\ returned[i].compatibility.overall_score >= m_args.min_score
          /\ NonIncreasing(returned)
    /\ (m_pc = "raised" /\ m_args.direction = "jobs")
          => db.jobs[results[row_i]].analysis.present

\* a call with min_score 0.6 that met a job without analysis, scored the two
\* others, reordered them and returned them
C4_Witness ==
    /\ JobsDone
    /\ \E i \in 1..Len(results) : ~db.jobs[results[i]].analysis.present
    /\ m_args.min_score = 60
    /\ Len(returned) = 2
    /\ returned # matches

\* C5: in both directions an exception raised while one shortlist entry is
\* processed skips that entry only; the call goes on and returns the ranking
\* of the others, it never ends by raising.
C5_EntryFailureIsSkipped == m_pc # "raised"

QueryEntityFound ==
    \/ m_args.direction = "jobs" /\ db.candidate.found
    \/ m_args.direction = "candidates" /\ db.job.found

\* C7: each direction issues its nearest-neighbour query with k = 2*limit (20 for
\* limit = 10), and nothing has been filtered, ranked or truncated while the
\* query is still to be issued.
C7_Oversampling ==
    /\ search_limit \in {0, 2 * m_args.limit}
    /\ (m_pc # "idle" /\ QueryEntityFound) => search_limit = 2 * m_args.limit
    /\ (m_args.limit = 10 /\ search_limit # 0) => search_limit >= 20
    /\ Len(results) <= search_limit
    /\ search_limit = 0 => (row_i = 0 /\ matches = <<>> /\ returned = <<>>)

\* limit = 1 asked of three stored candidates: two neighbours were fetched
C7_Witness ==
    /\ m_pc = "loop"
    /\ m_args.direction = "candidates"
    /\ m_args.limit = 1
    /\ search_limit = 2
    /\ Len(results) = 2
    /\ matches = <<>>

(***************************************************************************)
(* Properties of batch scoring (SpecBatch)                                 *)
(***************************************************************************)
RaisedAt == {k \in 1..Len(b_outcomes) : b_outcomes[k] = "raised"}

\* the job id at position k has a job post and a job analysis
Resolves(k) == bdb.jobs[b_ids[k]].post /\ bdb.jobs[b_ids[k]].analysis.present

\* C6 as stated: a batch of N ids of which exactly one raised returns exactly
\* N-1 results and never zero results.
C6_OneFailureLeavesAllOthers ==
    (b_pc = "done" /\ Cardinality(RaisedAt) = 1) =>
        /\ Len(b_results) = Len(b_ids) - 1
        /\ Len(b_results) > 0

\* C6 amended: an exception in the loop never fails the batch call; when
\* exactly one id raised and every other id has a job post and a job analysis,
\* exactly N-1 results are returned, which is more than zero for N >= 2.
C6_OneFailureLeavesResolvedOthers ==
    /\ b_pc # "raised"
    /\ (b_pc = "done" /\ Cardinality(RaisedAt) = 1
        /\ \A k \in 1..Len(b_ids) : k \notin RaisedAt => Resolves(k)) =>
          /\ Len(b_results) = Len(b_ids) - 1
          /\ Len(b_ids) >= 2 => Len(b_results) > 0

\* three ids, the middle one raised, the two others scored
C6_Witness ==
    /\ b_pc = "done"
    /\ Len(b_ids) = 3
    /\ RaisedAt = {2}
    /\ Len(b_results) = 2

(***************************************************************************)
(* Properties of the matcher functions (SpecFn)                            *)
(***************************************************************************)
FnDone(name) == fn_in.fn = name /\ fn_out.done

\* the judge raised or timed out, or its output is not JSON, not an object,
\* or has a score or a count of the wrong type or a score outside 0..100
JudgeFailed(a) ==
    \/ a.kind # "dict"
    \/ a.score = BadType
    \/ a.score # Absent /\ a.score \notin 0..100
    \/ a.relevant_count = BadType

YearsOrZero(y) == IF y = None THEN 0 ELSE y

\* C12: when candidate_years is below min_years the experience matcher reports
\* gap = min_years - candidate_years, and gap 1 scores 0.85 "slightly_below",
\* gap 2 scores 0.70 and gap 3 or more 0.50, both "significantly_below".
C12_BelowMinimumSteps ==
    LET c == YearsOrZero(fn_in.candidate_years)
        m == YearsOrZero(fn_in.min_years)
        o == fn_out.value
    IN  (FnDone("experience") /\ c < m) =>
            /\ o.gap = m - c
            /\ o.gap = 1 => (o.score = 85 /\ o.assessment = "slightly_below")
            /\ o.gap = 2 => (o.score = 70 /\ o.assessment = "significantly_below")
            /\ o.gap >= 3 => (o.score = 50 /\ o.assessment = "significantly_below")

\* the example of the specification: 3 years against a minimum of 5, no maximum
C12_Witness ==
    /\ FnDone("experience")
    /\ fn_in.candidate_years = 3
    /\ fn_in.min_years = 5
    /\ fn_in.max_years = None
    /\ fn_out.value.gap = 2
    /\ fn_out.value.score = 70
    /\ fn_out.value.assessment = "significantly_below"

\* C13: when candidate_years >= min_years the experience matcher returns 0.95
\* "exceeds" if max_years is set (non-null) and candidate_years > max_years + 5,
\* otherwise 1.0 with "exceeds" above min_years and "meets_requirement" at
\* min_years; gap is 0 in both cases.
C13_AtOrAboveMinimum ==
    LET c == YearsOrZero(fn_in.candidate_years)
        m == YearsOrZero(fn_in.min_years)
        o == fn_out.value
    IN  (FnDone("experience") /\ c >= m) =>
            /\ o.gap = 0
            /\ IF fn_in.max_years # None /\ c > fn_in.max_years + 5
               THEN o.score = 95 /\ o.assessment = "exceeds"
               ELSE /\ o.score = 100
                    /\ o.assessment = IF c > m THEN "exceeds" ELSE "meets_requirement"

\* some required keyword is, case-insensitively, a substring of some
\* "<degree> in <institution>"
KeywordMatched(candidate_edu, required_edu) ==
    \E r \in 1..Len(required_edu) : \E e \in 1..Len(candidate_edu) :
        IsSubstring(str_lower(required_edu[r]), str_lower(FlattenEdu(candidate_edu[e])))

\* C14: the education matcher returns 1.0 / true without requirements; otherwise
\* meets_requirement is true exactly when a required keyword is a
\* case-insensitive substring of a flattened candidate entry, and the score is
\* 1.0 if matched, else 0.7 with at least one education entry, else 0.4.
C14_EducationReference ==
    LET o == fn_out.value
        matched == KeywordMatched(fn_in.candidate_edu, fn_in.required_edu)
    IN  FnDone("education") =>
            /\ ~o.raised
            /\ fn_in.required_edu = <<>> => (o.score = 100 /\ o.meets_requirement)
            /\ fn_in.required_edu # <<>> =>
                  /\ o.meets_requirement = matched
                  /\ o.score = IF matched THEN 100
                               ELSE IF fn_in.candidate_edu # <<>> THEN 70 ELSE 40

\* the required skills that equal a candidate skill after strip and lower
OverlapMatched(candidate_skills, required_skills) ==
    {i \in 1..Len(required_skills) :
        \E j \in 1..Len(candidate_skills) :
            str_lower(str_strip(required_skills[i])) = str_lower(str_strip(candidate_skills[j]))}

\* C17: in the job->candidates direction skill_overlap = |matched| / |required|,
\* matching after trimming and lower-casing, and 0.0 when the required list
\* is empty.
C17_SkillOverlap ==
    LET o == fn_out.value
        n == Len(fn_in.required_skills)
    IN  FnDone("matcher_skill") =>
            IF n = 0 THEN o.num = 0
            ELSE o.num * n =
                 Cardinality(OverlapMatched(fn_in.candidate_skills, fn_in.required_skills)) * o.den

\* C18: experience_fit is 0.8 when no experience requirement is specified,
\* max(0, 1.0 - 0.2*gap) under min_years, 0.9 over max_years, 1.0 otherwise,
\* and always within [0,1].
C18_ExperienceFit ==
    LET c == YearsOrZero(fn_in.candidate_years)
        o == fn_out.value
    IN  FnDone("matcher_experience") =>
            /\ o >= 0 /\ o <= 100
            /\ o = IF fn_in.min_years = None THEN 80
                   ELSE IF c < fn_in.min_years THEN Max(0, 100 - 20 * (fn_in.min_years - c))
                   ELSE IF fn_in.max_years # None /\ c > fn_in.max_years THEN 90
                   ELSE 100

(***************************************************************************)
(* Properties of the job -> candidates direction (SpecMatch)               *)
(***************************************************************************)
CandsDone == m_pc = "done" /\ m_args.direction = "candidates"

\* similarity*0.4 + skill_overlap*0.4 + experience_fit*0.2 of a stored
\* candidate row, similarity being 1 - distance, as a fraction
WeightedOf(row) ==
    LET sk == matcher_skill_match(IF row.skills.none THEN <<>> ELSE row.skills.items,
                                  db.job.required_skills)
        ex == matcher_experience_match(YearsOrZero(row.experience_years),
                                       db.job.min_years_experience,
                                       db.job.max_years_experience)
    IN  [num |-> 40 * (100 - row.distance) * sk.den + 4000 * sk.num + 20 * ex * sk.den,
         den |-> 10000 * sk.den]

\* C15: in the job->candidates direction the overall score of every shortlisted
\* candidate is similarity*0.4 + skill_overlap*0.4 + experience_fit*0.2 with
\* similarity = 1 - distance, and nothing else contributes: a candidate that
\* was processed is in matches with exactly that score, or that score is
\* below min_score.
C15_CandidateWeighting ==
    m_args.direction = "candidates" =>
        /\ \A i \in 1..Len(matches) :
              LET e == matches[i]
                  w == WeightedOf(db.candidates[e.candidate_id])
              IN  /\ e.overall_num * w.den = w.num * e.overall_den
                  /\ e.overall_match_score = PyRound(100 * w.num, w.den)
                  /\ e.similarity_score = 100 - db.candidates[e.candidate_id].distance
        /\ \A k \in 1..(row_i - 1) :
              LET w == WeightedOf(db.candidates[results[k]])
              IN  \/ \E i \in 1..Len(matches) : matches[i].candidate_id = results[k]
                  \/ 100 * w.num < m_args.min_score * w.den

\* a candidate at distance 0.10 with half of the skills and two years short:
\* 0.9*0.4 + 0.5*0.4 + 0.6*0.2 = 0.68
C15_Witness ==
    /\ CandsDone
    /\ \E i \in 1..Len(returned) :
          /\ returned[i].similarity_score = 90
          /\ returned[i].skill_match_score = 50
          /\ returned[i].experience_match_score = 60
          /\ returned[i].overall_match_score = 68

\* C16: find_matching_candidates returns at most `limit` entries, none whose
\* overall score is below min_score, in non-increasing order of overall score.
C16_CandidatesRanking ==
    CandsDone =>
        /\ Len(returned) <= m_args.limit
        /\ \A i \in 1..Len(returned) :
              100 * returned[i].overall_num >= m_args.min_score * returned[i].overall_den
        /\ \A i \in 1..(Len(returned) - 1) :
              returned[i].overall_num * returned[i + 1].overall_den
                  >= returned[i + 1].overall_num * returned[i].overall_den

(***************************************************************************)
(* Properties of the single-pair endpoint (SpecPair)                       *)
(***************************************************************************)
Unresolved(request) ==
    \/ ~p_db.cvs[request.parsed_cv_id].found
    \/ ~p_db.jobs[request.job_post_id].post
    \/ ~p_db.jobs[request.job_post_id].analysis.present

\* C19: a single-pair call whose parsed CV id, job id or job analysis does not
\* resolve ends with a NotFound error and no score, and aborts that call only:
\* every call with resolvable ids answers what it answers on its own, whatever
\* calls failed before or after it.
C19_NotFoundAbortsOnlyThatCall ==
    \A k \in 1..Len(p_hist) :
        LET h == p_hist[k]
        IN  /\ Unresolved(h.request) =>
                  (h.response.status = 404 /\ "score" \notin DOMAIN h.response)
            /\ ~Unresolved(h.request) =>
                  h.response = pair_response(p_db, h.request, h.crit_answer)

\* a call that ended with 404, then a call that returned a score
C19_Witness ==
    /\ Len(p_hist) = 2
    /\ p_hist[1].response.status = 404
    /\ p_hist[2].response.status = 200
    /\ p_hist[2].response.score.overall_score > 0

(***************************************************************************)
(* Properties of concurrent invocations (SpecConc)                         *)
(***************************************************************************)
\* what the invocation returns when it runs alone
Alone(a) ==
    calculate_compatibility(a.parsed_cv, a.job_analysis, a.semantic_similarity,
                            a.crit_answer, a.work_answer)

\* C20: under every interleaving each invocation returns the CompatibilityScore
\* (or raises as) it would when run alone; the only state shared is the
\* service instance, which holds nothing the invocations write.
C20_InvocationsDoNotInterfere ==
    \A p \in 1..NInv :
        /\ inv[p].pc = "done" => inv[p].result = Alone(inv[p].args)
        /\ inv[p].scorer <= svc

\* both invocations found no instance and each created one; they scored
\* different pairs and got different scores
C20_Witness ==
    /\ svc = 2
    /\ inv[1].pc = "done" /\ inv[2].pc = "done"
    /\ ~inv[1].result.raised /\ ~inv[2].result.raised
    /\ inv[1].result.overall_score # inv[2].result.overall_score

(***************************************************************************)
(* Further properties of the matching directions (SpecMatch)               *)
(***************************************************************************)
\* the fields scripts/test_job_matching.py reads and the required fields of
\* JobMatchResult
JobMatchFields ==
    {"job_title", "company", "match_percentage", "match_explanation",
     "skill_match_score", "experience_match_score", "recommendation"}

\* C21: every entry returned by find_matching_jobs carries job_title, company,
\* match_percentage and match_explanation, and the skill_match_score,
\* experience_match_score and recommendation the response schema requires.
C21_JobEntryHasSchemaFields ==
    JobsDone => \A i \in 1..Len(returned) : JobMatchFields \subseteq DOMAIN returned[i]

(***************************************************************************)
(* Further properties of the skill matcher (SpecSkill)                     *)
(***************************************************************************)
\* the entries of list l that equal some entry of list m after strip and lower
Normalised(l, m) ==
    SelectSeq(l, LAMBDA x : \E j \in 1..Len(m) : SameSkill(x, m[j]))

\* C22: critical_missing is missing_required intersected with critical, the
\* strings compared after trimming and lower-casing, and each of its entries
\* costs 0.15.
C22_CriticalMissingNormalised ==
    (SkillReturned /\ sk_in.required # <<>> /\ ~sk_in.critical.none) =>
        LET cm == Normalised(sk_out.missing_required, sk_in.critical.items)
            n  == Len(sk_in.required)
            x  == 100 * Len(sk_out.matched_required) - 15 * Len(cm) * n
                  + 5 * Len(sk_out.matched_preferred) * n
        IN  /\ sk_out.critical_missing = cm
            /\ sk_out.score = PyRound(Min(100 * n, Max(0, x)), n)

\* C23: with required non-empty, additional_skills is the candidate skills that
\* match no required and no preferred skill after trimming and lower-casing,
\* in candidate order, the first 5 of them; no skill counted in
\* matched_required or matched_preferred is among them.
C23_AdditionalSkills ==
    (SkillReturned /\ sk_in.required # <<>>) =>
        LET job == sk_in.required \o sk_in.preferred
            cs  == sk_in.candidate_skills.items
        IN  /\ sk_out.additional_skills =
                   Take(SelectSeq(cs, LAMBDA c : \A j \in 1..Len(job) : ~SameSkill(c, job[j])), 5)
            /\ \A i \in 1..Len(sk_out.additional_skills) :
                  \A m \in Elems(sk_out.matched_required \o sk_out.matched_preferred) :
                      ~SameSkill(sk_out.additional_skills[i], m)

(***************************************************************************)
(* Properties of the recommendations (Spec)                                *)
(***************************************************************************)
Proceed ==
    [type |-> "for_hr", priority |-> "high", recommendation |-> "proceed", skills |-> <<>>]

\* C24: when critical or missing required skills exist, exactly one
\* high-priority candidate-facing upskilling recommendation and one
\* medium-priority HR-facing probe recommendation are emitted, each naming at
\* most 3 missing skills; when none was emitted and there are no weaknesses,
\* exactly one high-priority HR-facing "proceed to interview"; never more than
\* two recommendations.
C24_Recommendations ==
    ScoreReturned =>
        LET recs    == cc_out.recommendations
            missing == \/ cc_out.skill_match.critical_missing # <<>>
                       \/ cc_out.skill_match.missing_required # <<>>
        IN  /\ Len(recs) <= 2
            /\ missing =>
                  /\ Len(recs) = 2
                  /\ recs[1].type = "for_candidate" /\ recs[1].priority = "high"
                  /\ recs[1].recommendation = "upskill"
                  /\ recs[2].type = "for_hr" /\ recs[2].priority = "medium"
                  /\ recs[2].recommendation = "probe"
                  /\ Len(recs[1].skills) \in 1..3 /\ Len(recs[2].skills) \in 1..3
            /\ (~missing /\ cc_out.weaknesses = <<>>) => recs = <<Proceed>>

\* C27: whenever "Proceed to interview" is emitted the tier is not
\* not_recommended, that is overall_score >= 55.
C27_ProceedOnlyWhenRecommended ==
    (ScoreReturned /\ \E i \in 1..Len(cc_out.recommendations) :
                          cc_out.recommendations[i] = Proceed) =>
        /\ cc_out.recommendation # "not_recommended"
        /\ cc_out.overall_score >= 55

(***************************************************************************)
(* A query entity that is missing (SpecMatch)                              *)
(***************************************************************************)
\* C25: when the queried candidate (find_matching_jobs) or job
\* (find_matching_candidates) does not exist or has no stored embedding, the
\* call returns an empty list without raising, without issuing the
\* nearest-neighbour query and without scoring any entry.
C25_MissingEntityReturnsEmpty ==
    (m_pc # "idle" /\ ~QueryEntityFound) =>
        /\ m_pc = "done"
        /\ returned = <<>>
        /\ search_limit = 0 /\ results = <<>>
        /\ row_i = 0 /\ matches = <<>>

\* the candidate is missing while jobs that would match are stored
C25_Witness ==
    /\ m_pc = "done"
    /\ m_args.direction = "jobs"
    /\ ~db.candidate.found
    /\ \E j \in DOMAIN db.jobs : db.jobs[j].has_embedding /\ db.jobs[j].analysis.present
    /\ returned = <<>>

\* C28: for every shortlist entry in either direction the semantic similarity
\* 1 - distance lies in [0,1] (0..100 in hundredths).
C28_SimilarityInUnitInterval ==
    \A k \in 1..Len(results) :
        LET distance == IF m_args.direction = "jobs" THEN db.jobs[results[k]].distance
                        ELSE db.candidates[results[k]].distance
        IN  100 - distance \in 0..100

(***************************************************************************)
(* The lazily created scorer (SpecConc)                                    *)
(***************************************************************************)
\* C26: under every interleaving of concurrent first calls to
\* get_compatibility_scorer_service at most one CompatibilityScorerService is
\* ever constructed and every caller receives that same instance.
C26_SingleScorerInstance ==
    /\ svc <= 1
    /\ \A p, q \in 1..NInv :
          (inv[p].scorer # 0 /\ inv[q].scorer # 0) => inv[p].scorer = inv[q].scorer

(***************************************************************************)
(* The batch loop over a prefix of the request (SpecBatch)                 *)
(***************************************************************************)
\* positions of the processed prefix whose scoring returned, in request order
ScoredAt == SelectSeq([k \in 1..Len(b_outcomes) |-> k], LAMBDA k : b_outcomes[k] = "scored")

\* the scores the scorer can return for the job id at position k
ScoresOf(k) ==
    LET job == bdb.jobs[b_ids[k]]
    IN  { sc \in { calculate_compatibility(bdb.parsed_cv.obj, job.analysis.ja, job.similarity,
                                           ca, WorkAnswer("raise", Absent)) :
                   ca \in MatchCriticalAnswers } : ~sc.raised }

\* the score was computed from the analysis and the similarity of the job id
\* at position k
ScoredFrom(sc, k) ==
    LET job == bdb.jobs[b_ids[k]]
    IN  /\ sc.semantic_similarity.score = job.similarity
        /\ sc.education_match.required_education = job.analysis.ja.education_requirements
        /\ sc.skill_match.matched_required \o sc.skill_match.missing_required # <<>>
              <=> job.analysis.ja.required_skills # <<>>

PrefixHolds ==
    b_pc \in {"loop", "done"} =>
        /\ Len(b_outcomes) = b_i - 1
        /\ b_pc = "done" => Len(b_outcomes) = Len(b_ids)
        /\ \A k \in 1..Len(b_outcomes) :
              /\ Resolves(k) <=> b_outcomes[k] \in {"scored", "raised"}
              /\ b_outcomes[k] = "no_post" <=> ~bdb.jobs[b_ids[k]].post
        /\ Len(b_results) = Len(ScoredAt)
        /\ \A j \in 1..Len(b_results) :
              ~b_results[j].raised /\ ScoredFrom(b_results[j], ScoredAt[j])

\* a step keeps the results it found and adds at most one, a score the scorer
\* returns for the id the step processed
ResultsOnlyGrow ==
    /\ Len(b_results') \in {Len(b_results), Len(b_results) + 1}
    /\ SubSeq(b_results', 1, Len(b_results)) = b_results
    /\ Len(b_results') > Len(b_results) =>
          b_results'[Len(b_results')] \in ScoresOf(b_i)

\* C29: after the batch loop has processed any prefix of the requested ids the
\* result list holds exactly one score for each id of the prefix whose job
\* post and job analysis exist and whose scoring did not raise, in request
\* order; results appended for earlier ids are never changed or removed later.
C29_BatchPrefix == []PrefixHolds /\ [][ResultsOnlyGrow]_vars

\* a failure between two scored ids: both scores are returned, in request order
C29_Witness ==
    /\ b_pc = "done"
    /\ b_outcomes = <<"scored", "raised", "scored">>
    /\ Len(b_results) = 2
    /\ b_results[1] # b_results[2]

(***************************************************************************)
(* Adding a skill to the candidate (SpecFn)                                *)
(***************************************************************************)
TierRank(t) ==
    IF t = "highly_recommended" THEN 3
    ELSE IF t = "recommended" THEN 2
    ELSE IF t = "potential_fit" THEN 1
    ELSE 0

\* C30: for fixed required, preferred and critical lists, adding a skill to the
\* candidate's skill list never decreases the skill score and, the other four
\* sub-scores held fixed, never decreases overall_score or lowers the tier; a
\* call that returned before the addition still returns after it.
C30_SkillScoreMonotone ==
    FnDone("skill_added") =>
        LET v == fn_out.value
        IN  /\ v.after.raised => v.before.raised
            /\ ~v.before.raised =>
                  /\ v.after.score >= v.before.score
                  /\ v.report_after.overall_score >= v.report_before.overall_score
                  /\ TierRank(v.report_after.recommendation)
                        >= TierRank(v.report_before.recommendation)

\* the added skill is a required one written differently: the skill score, the
\* overall score and the tier all rise
C30_Witness ==
    /\ FnDone("skill_added")
    /\ fn_in.added = <<"p", " ">>
    /\ fn_in.candidate_skills # <<>>
    /\ ~fn_out.value.before.raised
    /\ fn_out.value.after.score > fn_out.value.before.score
    /\ fn_out.value.report_after.overall_score > fn_out.value.report_before.overall_score
    /\ TierRank(fn_out.value.report_after.recommendation)
          > TierRank(fn_out.value.report_before.recommendation)

====
